---------------------------- MODULE Spec2Model ----------------------------
(***************************************************************************)
(* A model of texfigure (src/texfigure/texfigure.py): the Figure and       *)
(* MultiFigure classes and the Manager's figure registry.                  *)
(*                                                                         *)
(* Python strings whose content the code inspects or rewrites are          *)
(* sequences of one-character strings.  Objects live on heaps (figs, mfs,  *)
(* bufs) and are identified by their index, so that identity and aliasing  *)
(* are visible.  None is 0 where object identities are expected.           *)
(***************************************************************************)
EXTENDS Integers, Sequences, FiniteSets, TLC

(***************************************************************************)
(* Bounds of the model.                                                    *)
(***************************************************************************)
MaxSaves == 3     \* save_figure calls that reach add_figure
MaxFigs == 2      \* Figure objects constructed directly
MaxRoots == 1     \* MultiFigure objects constructed directly
MaxMF == 2        \* MultiFigure objects in all (constructed or sliced)
MaxRows == 2      \* nrows of a constructed MultiFigure
MaxCols == 2      \* ncols of a constructed MultiFigure
MaxSysPath == 3   \* sys.path entries the Manager appends
MaxDeps == 2      \* data_file calls that return
MaxRefs == 3      \* references passed to get_multifigure

None == 0

(***************************************************************************)
(* Strings.                                                                *)
(***************************************************************************)
Digit == <<"0", "1", "2", "3", "4", "5", "6", "7", "8", "9">>

RECURSIVE IntToStr(_)
\* '{}'.format(n) for a natural number n.
IntToStr(n) ==
    IF n < 10 THEN <<Digit[n + 1]>>
    ELSE IntToStr(n \div 10) \o <<Digit[(n % 10) + 1]>>

\* str.replace('_', '-')
ReplaceUnderscore(s) == [i \in 1..Len(s) |-> IF s[i] = "_" THEN "-" ELSE s[i]]

\* The index of the last "." of s, 0 when there is none.
LastDot(s) ==
    LET dots == {i \in 1..Len(s) : s[i] = "."}
    IN  IF dots = {} THEN 0 ELSE CHOOSE i \in dots : \A j \in dots : j <= i

\* os.path.splitext(name) for a base name: <<root, ext>>, split at the last
\* dot unless the name only starts with it.
SplitExt(name) ==
    LET d == LastDot(name)
    IN  IF d <= 1 THEN <<name, <<>>>>
        ELSE <<SubSeq(name, 1, d - 1), SubSeq(name, d, Len(name))>>

sFig == <<"f", "i", "g", ":">>
sFigure == <<"F", "i", "g", "u", "r", "e", " ">>
sMultiFigure == <<"M", "u", "l", "t", "i", "F", "i", "g", "u", "r", "e", " ">>
sChapter == <<"C", "h", "a", "p", "t", "e", "r">>
sDashFigure == <<"-", "F", "i", "g", "u", "r", "e">>
sCont == <<"-", "c">>
sPdf == <<".", "p", "d", "f">>
sPng == <<".", "p", "n", "g">>
sPgf == <<".", "p", "g", "f">>
sPlot == <<"p", "l", "o", "t">>
sSlice == <<"_", "S", "l", "i", "c", "e">>

(***************************************************************************)
(* Paths: a directory is [set, abs, comps]; a file path adds the base      *)
(* name.  set = FALSE is Python's None.                                    *)
(***************************************************************************)
Cwd == <<"cwd">>
NoneDir == [set |-> FALSE, abs |-> FALSE, comps |-> <<>>]
AbsBase == [set |-> TRUE, abs |-> TRUE, comps |-> <<"base">>]
RelBase == [set |-> TRUE, abs |-> FALSE, comps |-> <<"base">>]
CustomDir == [set |-> TRUE, abs |-> TRUE, comps |-> <<"custom">>]

\* os.path.join(dir, name) for a directory and a file or directory name.
JoinDir(d, c) == [set |-> TRUE, abs |-> d.abs, comps |-> d.comps \o <<c>>]
JoinFile(d, name) == [abs |-> d.abs, comps |-> d.comps, name |-> name]

\* os.path.abspath(path)
AbsPath(p) ==
    IF p.abs THEN p ELSE [abs |-> TRUE, comps |-> Cwd \o p.comps, name |-> p.name]

(***************************************************************************)
(* Figure                                                                  *)
(***************************************************************************)
sFigureWidth == "0.95\\columnwidth"
sSubfigWidth == "0.45\\columnwidth"

\* Mutant of FigureInit: the label is made before the underscores are
\* replaced.
FigureInitLabelFirst(file_name, reference) ==
    LET fn == AbsPath(file_name)
        r0 == IF reference = <<>> THEN SplitExt(fn.name)[2] ELSE reference
        r  == ReplaceUnderscore(r0)
    IN  [file_name        |-> fn,
         reference        |-> r,
         fname            |-> fn.name,
         base_dir         |-> [abs |-> fn.abs, comps |-> fn.comps],
         caption          |-> sFigure \o r,
         label            |-> sFig \o r0,
         placement        |-> "h",
         figure_width     |-> sFigureWidth,
         subfig_width     |-> sSubfigWidth,
         subfig_placement |-> "b"]

\* Figure.__init__(file_name, reference); reference = <<>> is "not given".
FigureInit(file_name, reference) ==
    LET fn == AbsPath(file_name)
        r0 == IF reference = <<>> THEN SplitExt(fn.name)[2] ELSE reference
        r  == ReplaceUnderscore(r0)
    IN  [file_name        |-> fn,
         reference        |-> r,
         fname            |-> fn.name,
         base_dir         |-> [abs |-> fn.abs, comps |-> fn.comps],
         caption          |-> sFigure \o r,
         label            |-> sFig \o r,
         placement        |-> "h",
         figure_width     |-> sFigureWidth,
         subfig_width     |-> sSubfigWidth,
         subfig_placement |-> "b"]

\* Figure.extension: os.path.splitext(self.fname)[1]
Extension(f) == SplitExt(f.fname)[2]

\* Figure.get_pgf_include: \IfFileExists{file_name}{\import{base_dir}{fname}}{}
GetPgfInclude(f) ==
    [directive |-> "IfFileExists", file_name |-> f.file_name, width |-> "",
     import |-> <<f.base_dir, f.fname>>]

\* Figure.get_standard_include: \includegraphics[width=figure_width]{file_name}
GetStandardInclude(f) ==
    [directive |-> "includegraphics", file_name |-> f.file_name,
     width |-> f.figure_width, import |-> <<>>]

\* Mutant of ExtensionMapping: an unknown extension is included as an image.
ExtensionMappingWithDefault(f) ==
    IF Extension(f) = sPgf
    THEN [status |-> "ok", value |-> GetPgfInclude(f)]
    ELSE [status |-> "ok", value |-> GetStandardInclude(f)]

\* self.extension_mapping[self.extension](): [status, value].
ExtensionMapping(f) ==
    IF Extension(f) = sPgf
    THEN [status |-> "ok", value |-> GetPgfInclude(f)]
    ELSE IF Extension(f) \in {sPng, sPdf}
    THEN [status |-> "ok", value |-> GetStandardInclude(f)]
    ELSE [status |-> "KeyError", value |-> None]

\* Figure.repr_figure: fig_str filled in; [status, value].
ReprFigure(f) ==
    LET myfig == ExtensionMapping(f)
    IN  IF myfig.status # "ok" THEN myfig
        ELSE [status |-> "ok",
              value |-> [env |-> "figure", placement |-> f.placement, width |-> "",
                         myfig |-> myfig.value, caption |-> f.caption,
                         label |-> f.label]]

\* Figure.repr_subfigure: subfig_str filled in; [status, value].
ReprSubfigure(f) ==
    LET myfig == ExtensionMapping(f)
    IN  IF myfig.status # "ok" THEN myfig
        ELSE [status |-> "ok",
              value |-> [env |-> "subfigure", placement |-> f.subfig_placement,
                         width |-> f.subfig_width, myfig |-> myfig.value,
                         caption |-> f.caption, label |-> f.label]]

\* isinstance(x, Figure) for an argument value [kind, id].
IsFigure(x) == x.kind = "Figure"

(***************************************************************************)
(* State.                                                                  *)
(***************************************************************************)
VARIABLES
    figs,                  \* heap of Figure objects; identity = index
    bufs,                  \* heap of numpy object arrays (base storage)
    mfs,                   \* heap of MultiFigure objects; identity = index
    pytex_created,         \* pytex.add_created calls, in order
    number,                \* Manager._number
    base_path,             \* Manager._base_path
    fig_dir,               \* Manager._fig_dir
    fig_count,             \* Manager.fig_count
    registry,              \* Manager._figure_registry (OrderedDict), in iteration order
    savefigure_functions,  \* Manager.savefigure_functions: registered kinds, in order
    ret,                   \* the last call: its arguments and its result (value: an
                           \* object's identity or None; latex: markup; path: a path)
    returned,              \* history: reference -> Figure the last returning save_figure gave
    firstSave,             \* history: reference -> fig_count at its first registration
    python_dir,            \* Manager._python_dir
    data_dir,              \* Manager._data_dir
    pytex_deps,            \* pytex.add_dependencies calls, in order
    sys_path,              \* the entries the Manager appended to sys.path, in order
    disk,                  \* the directories that exist (os.path.exists)
    assigned,              \* history: the value last assigned to each directory attribute
    created_at             \* history: what each add_created call found in the Manager

heapVars == <<figs, bufs, mfs>>
dirVars == <<python_dir, data_dir, sys_path, disk, assigned>>
mgrVars == <<pytex_created, number, base_path, fig_dir, fig_count, registry,
             savefigure_functions, returned, firstSave, dirVars, pytex_deps,
             created_at>>
vars == <<figs, bufs, mfs, pytex_created, number, base_path, fig_dir, fig_count,
          registry, savefigure_functions, ret, returned, firstSave,
          python_dir, data_dir, pytex_deps, sys_path, disk, assigned, created_at>>

(***************************************************************************)
(* Inputs.                                                                 *)
(***************************************************************************)
Refs == {<<"a">>, <<"a", "_", "b">>}
Numbers == {1}
BasePaths == {RelBase}
DirToggles == {"False", "True", "custom"}
FNames == {<<>>, sPlot}          \* <<>> is fname=None
FExts == {sPdf, sPng}
DataNames == {<<"d", ".", "t", "x", "t">>}

\* Artifact classes and the subclass relation issubclass reads.
Classes == {"MplFigure", "MplSub", "Scene", "IPC", "Other"}
Parents == {<<"MplSub", "MplFigure">>}
IsSubclass(c, k) == c = k \/ <<c, k>> \in Parents
Backend(c) == CASE c \in {"MplFigure", "MplSub"} -> "matplotlib"
                [] c = "Scene" -> "mayavi"
                [] c = "IPC" -> "yt"
                [] OTHER -> "python"
\* fig arguments: None, or an object of a class, with len(fig.plots) for a
\* plot container.
Artifacts == {[cls |-> c, plots |-> 1] : c \in Classes}
                 \cup {[cls |-> "IPC", plots |-> 2]}
NoArtifact == [cls |-> "None", plots |-> 0]

(***************************************************************************)
(* Manager                                                                 *)
(***************************************************************************)
\* Manager._add_dir(adir, attr, default): the new value of the attribute.
AddDir(old, adir, default) ==
    IF adir = "False" THEN old
    ELSE IF adir = "True" THEN JoinDir(base_path, default)
    ELSE CustomDir

AddDirInit(base, adir, default) ==
    IF adir = "False" THEN NoneDir
    ELSE IF adir = "True" THEN JoinDir(base, default)
    ELSE CustomDir

\* Manager.__init__: the registered save functions, in registration order.
InitSaveFunctions(have_mayavi, have_yt) ==
    <<"MplFigure">> \o (IF have_mayavi THEN <<"Scene">> ELSE <<>>)
                    \o (IF have_yt THEN <<"IPC">> ELSE <<>>)

HaveBackend(b) ==
    \/ b \in {"python", "matplotlib"}
    \/ b = "mayavi" /\ \E i \in 1..Len(savefigure_functions) : savefigure_functions[i] = "Scene"
    \/ b = "yt" /\ \E i \in 1..Len(savefigure_functions) : savefigure_functions[i] = "IPC"

\* Mutant of MakeFigureFilename: numbered by the registry's size.
MakeFigureFilenameByRegistry(ref, fname, fext) ==
    IF fname = <<>>
    THEN sChapter \o IntToStr(number) \o sDashFigure \o IntToStr(Len(registry) + 1)
             \o <<"-">> \o ref \o fext
    ELSE fname

\* Manager.make_figure_filename(ref, fname, fext): the base name.
MakeFigureFilename(ref, fname, fext) ==
    IF fname = <<>>
    THEN sChapter \o IntToStr(number) \o sDashFigure \o IntToStr(fig_count)
             \o <<"-">> \o ref \o fext
    ELSE fname

\* The three save functions: [status, fname] for artifact art and path p;
\* io is whether the backend's write fails.
SaveMplFigure(art, p, io) ==
    IF io THEN [status |-> "IOError", fname |-> p] ELSE [status |-> "ok", fname |-> p]

SaveMayaviFigure(art, p, io) ==
    IF io THEN [status |-> "IOError", fname |-> p] ELSE [status |-> "ok", fname |-> p]

SaveYtIpc(art, p, io) ==
    LET se == SplitExt(p.name)
        written == se[1] \o sSlice \o (IF se[2] = <<>> THEN sPng ELSE se[2])
    IN  IF art.plots # 1 THEN [status |-> "NotImplementedError", fname |-> p]
        ELSE IF io THEN [status |-> "IOError", fname |-> p]
        ELSE [status |-> "ok", fname |-> [p EXCEPT !.name = written]]

SaveFunction(kind, art, p, io) ==
    CASE kind \in {"MplFigure", "MplSub"} -> SaveMplFigure(art, p, io)
      [] kind = "Scene" -> SaveMayaviFigure(art, p, io)
      [] OTHER -> SaveYtIpc(art, p, io)

RECURSIVE RunSaveFunctions(_, _, _, _, _)
\* save_figure's loop over savefigure_functions.keys(), from key i on:
\* every registered kind the artifact's class is a subclass of is called,
\* each with the file name the previous one returned.
RunSaveFunctions(i, art, p, io, invoked) ==
    IF i > Len(savefigure_functions)
    THEN [status |-> "ok", fname |-> p, invoked |-> invoked]
    ELSE IF IsSubclass(art.cls, savefigure_functions[i])
    THEN LET r == SaveFunction(savefigure_functions[i], art, p, io)
         IN  IF r.status # "ok"
             THEN [status |-> r.status, fname |-> p,
                   invoked |-> Append(invoked, savefigure_functions[i])]
             ELSE RunSaveFunctions(i + 1, art, r.fname, io,
                                   Append(invoked, savefigure_functions[i]))
    ELSE RunSaveFunctions(i + 1, art, p, io, invoked)

\* OrderedDict lookup: the position of key ref, 0 when absent.
RegIndex(reg, ref) ==
    IF \E i \in 1..Len(reg) : reg[i].ref = ref
    THEN CHOOSE i \in 1..Len(reg) : reg[i].ref = ref
    ELSE 0

\* Mutant of OrderedDictSet: re-inserting an existing key moves it to the end.
OrderedDictSetMoveToEnd(reg, ref, entry) ==
    LET e == [ref |-> ref, number |-> entry.number, Figure |-> entry.Figure]
    IN  Append(SelectSeq(reg, LAMBDA x : x.ref # ref), e)

\* OrderedDict.__setitem__: an existing key keeps its position.
OrderedDictSet(reg, ref, entry) ==
    LET i == RegIndex(reg, ref)
        e == [ref |-> ref, number |-> entry.number, Figure |-> entry.Figure]
    IN  IF i = 0 THEN Append(reg, e) ELSE [reg EXCEPT ![i] = e]

\* What pytex.add_created finds when add_figure calls it: fig_count, and
\* whether the registry already holds Figure id under ref.
Snapshot(count, reg, ref, id) ==
    [count   |-> count,
     written |-> RegIndex(reg, ref) # 0 /\ reg[RegIndex(reg, ref)].Figure = id]

\* Mutant of add_figure: add_created is called last.
add_figure_NotifyLast(ref, id, Fig) ==
    /\ registry' = OrderedDictSet(registry, ref, [number |-> fig_count, Figure |-> id])
    /\ fig_count' = fig_count + 1
    /\ pytex_created' = Append(pytex_created, Fig.file_name)
    /\ created_at' = Append(created_at, Snapshot(fig_count', registry', ref, id))

\* Mutant of add_figure: the registry is keyed by the Figure's own reference.
add_figure_KeyByFigureReference(ref, id, Fig) ==
    /\ pytex_created' = Append(pytex_created, Fig.file_name)
    /\ created_at' = Append(created_at, Snapshot(fig_count, registry, ref, id))
    /\ registry' = OrderedDictSet(registry, Fig.reference,
                                  [number |-> fig_count, Figure |-> id])
    /\ fig_count' = fig_count + 1

\* Mutant of add_figure: an overwritten entry keeps its old sequence number.
add_figure_KeepNumber(ref, id, Fig) ==
    LET i == RegIndex(registry, ref)
        n == IF i = 0 THEN fig_count ELSE registry[i].number
    IN  /\ pytex_created' = Append(pytex_created, Fig.file_name)
        /\ created_at' = Append(created_at, Snapshot(fig_count, registry, ref, id))
        /\ registry' = OrderedDictSet(registry, ref, [number |-> n, Figure |-> id])
        /\ fig_count' = fig_count + 1

\* Manager.add_figure(ref, Fig), for the Figure object Fig with identity id.
add_figure(ref, id, Fig) ==
    /\ pytex_created' = Append(pytex_created, Fig.file_name)
    /\ created_at' = Append(created_at, Snapshot(fig_count, registry, ref, id))
    /\ registry' = OrderedDictSet(registry, ref, [number |-> fig_count, Figure |-> id])
    /\ fig_count' = fig_count + 1

\* Manager.get_figure(ref): [status, value].
GetFigure(ref) ==
    LET i == RegIndex(registry, ref)
    IN  IF i = 0 THEN [status |-> "KeyError", value |-> None]
        ELSE [status |-> "ok", value |-> registry[i].Figure]

\* Manager.save_figure(ref, fig, fname, fext); io: the backend's write
\* fails; call: what ret records of the call.
save_figure_call(ref, fig, fname, fext, io, call) ==
    LET art  == IF fig = NoArtifact THEN [cls |-> "MplFigure", plots |-> 1] ELSE fig
        name == MakeFigureFilename(ref, fname, fext)
    IN  IF ~fig_dir.set
        THEN \* os.path.join(None, fname)
             /\ ret' = [call |-> call, status |-> "TypeError", value |-> None,
                        invoked |-> <<>>]
             /\ UNCHANGED <<heapVars, mgrVars>>
        ELSE LET run == RunSaveFunctions(1, art, JoinFile(fig_dir, name), io, <<>>)
                 Fig == FigureInit(run.fname, ref)
                 id  == Len(figs) + 1
             IN  IF run.status # "ok"
                 THEN /\ ret' = [call |-> call, status |-> run.status, value |-> None,
                                 invoked |-> run.invoked]
                      /\ UNCHANGED <<heapVars, mgrVars>>
                 ELSE /\ figs' = Append(figs, Fig)
                      /\ add_figure(ref, id, Fig)
                      /\ ret' = [call |-> call, status |-> "ok", value |-> id,
                                 invoked |-> run.invoked]
                      /\ returned' = [returned EXCEPT ![ref] = id]
                      /\ firstSave' = IF firstSave[ref] = 0
                                      THEN [firstSave EXCEPT ![ref] = fig_count]
                                      ELSE firstSave
                      /\ UNCHANGED <<bufs, mfs, number, base_path, fig_dir,
                                     savefigure_functions, dirVars, pytex_deps>>

save_figure(ref, fig, fname, fext, io) ==
    save_figure_call(ref, fig, fname, fext, io, [op |-> "save_figure", ref |-> ref])

SaveFigure ==
    \E ref \in Refs, fig \in Artifacts \cup {NoArtifact}, fname \in FNames,
       fext \in FExts, io \in BOOLEAN :
        /\ fig_count <= MaxSaves
        /\ HaveBackend(Backend(fig.cls))
        /\ save_figure(ref, fig, fname, fext, io)

\* Mutant of get_figure: the lookup removes the entry (dict.pop).
get_figure_Pop(ref) ==
    LET r == GetFigure(ref)
    IN  /\ ret' = [call |-> [op |-> "get_figure", ref |-> ref],
                   status |-> r.status, value |-> r.value]
        /\ registry' = SelectSeq(registry, LAMBDA e : e.ref # ref)
        /\ UNCHANGED <<heapVars, pytex_created, created_at, number, base_path, fig_dir,
                       fig_count, savefigure_functions, returned, firstSave, dirVars,
                       pytex_deps>>

get_figure(ref) ==
    LET r == GetFigure(ref)
    IN  /\ ret' = [call |-> [op |-> "get_figure", ref |-> ref],
                   status |-> r.status, value |-> r.value]
        /\ UNCHANGED <<heapVars, mgrVars>>

GetFigureCall == \E ref \in Refs : get_figure(ref)

\* _add_dir's os.makedirs: the directories that exist after the assignment.
AddDirDisk(dk, old, adir, default) ==
    IF adir = "False" THEN dk ELSE dk \cup {AddDir(old, adir, default)}

\* The fig_dir setter: manager.fig_dir = value.
set_fig_dir(value) ==
    /\ fig_dir' = AddDir(fig_dir, value, "Figs")
    /\ disk' = AddDirDisk(disk, fig_dir, value, "Figs")
    /\ assigned' = [assigned EXCEPT !.fig_dir = value]
    /\ ret' = [call |-> [op |-> "set_fig_dir", value |-> value], status |-> "ok",
               value |-> None]
    /\ UNCHANGED <<heapVars, pytex_created, created_at, number, base_path, fig_count, registry,
                   savefigure_functions, returned, firstSave, python_dir, data_dir,
                   sys_path, pytex_deps>>

SetFigDir == \E value \in DirToggles : set_fig_dir(value)

\* The data_dir setter: manager.data_dir = value.
set_data_dir(value) ==
    /\ data_dir' = AddDir(data_dir, value, "Data")
    /\ disk' = AddDirDisk(disk, data_dir, value, "Data")
    /\ assigned' = [assigned EXCEPT !.data_dir = value]
    /\ ret' = [call |-> [op |-> "set_data_dir", value |-> value], status |-> "ok",
               value |-> None]
    /\ UNCHANGED <<heapVars, pytex_created, created_at, number, base_path, fig_dir, fig_count,
                   registry, savefigure_functions, returned, firstSave, python_dir,
                   sys_path, pytex_deps>>

SetDataDir == \E value \in DirToggles : set_data_dir(value)

\* The python_dir setter: manager.python_dir = value; whatever the attribute
\* holds afterwards is appended to sys.path.
set_python_dir(value) ==
    /\ python_dir' = AddDir(python_dir, value, "Python")
    /\ disk' = AddDirDisk(disk, python_dir, value, "Python")
    /\ assigned' = [assigned EXCEPT !.python_dir = value]
    /\ sys_path' = IF python_dir'.set THEN Append(sys_path, python_dir') ELSE sys_path
    /\ ret' = [call |-> [op |-> "set_python_dir", value |-> value], status |-> "ok",
               value |-> None]
    /\ UNCHANGED <<heapVars, pytex_created, created_at, number, base_path, fig_dir, fig_count,
                   registry, savefigure_functions, returned, firstSave, data_dir,
                   pytex_deps>>

SetPythonDir ==
    \E value \in DirToggles :
        /\ Len(sys_path) < MaxSysPath
        /\ set_python_dir(value)

\* Manager.data_file(file_name)
data_file(file_name) ==
    LET call == [op |-> "data_file", file_name |-> file_name]
    IN  IF ~data_dir.set
        THEN \* os.path.join(None, file_name)
             /\ ret' = [call |-> call, status |-> "TypeError"]
             /\ UNCHANGED <<heapVars, mgrVars>>
        ELSE LET fname == JoinFile(data_dir, file_name)
             IN  /\ pytex_deps' = Append(pytex_deps, fname)
                 /\ ret' = [call |-> call, status |-> "ok", path |-> fname]
                 /\ UNCHANGED <<heapVars, pytex_created, created_at, number, base_path, fig_dir,
                                fig_count, registry, savefigure_functions, returned,
                                firstSave, dirVars>>

DataFile ==
    \E file_name \in DataNames :
        /\ Len(pytex_deps) < MaxDeps
        /\ data_file(file_name)

(***************************************************************************)
(* Manager.__init__(pytex, base_path, number, python_dir, data_dir,        *)
(* fig_dir), with the optional backends importable or not.                 *)
(***************************************************************************)
ManagerInit(pt, dt, ft, have_mayavi, have_yt) ==
    /\ figs = <<>>
    /\ bufs = <<>>
    /\ mfs = <<>>
    /\ pytex_created = <<>>
    /\ created_at = <<>>
    /\ pytex_deps = <<>>
    /\ number \in Numbers
    /\ base_path \in BasePaths
    /\ python_dir = AddDirInit(base_path, pt, "Python")
    /\ sys_path = IF python_dir.set THEN <<python_dir>> ELSE <<>>
    /\ data_dir = AddDirInit(base_path, dt, "Data")
    /\ fig_dir = AddDirInit(base_path, ft, "Figs")
    /\ disk = {d \in {python_dir, data_dir, fig_dir} : d.set}
    /\ assigned = [python_dir |-> pt, data_dir |-> dt, fig_dir |-> ft]
    /\ fig_count = 1
    /\ registry = <<>>
    /\ savefigure_functions = InitSaveFunctions(have_mayavi, have_yt)
    /\ ret = [call |-> [op |-> "init"], status |-> "ok", value |-> None]
    /\ returned = [r \in Refs |-> None]
    /\ firstSave = [r \in Refs |-> 0]

\* A Manager constructed with python_dir and data_dir at their defaults and
\* fig_dir False or True.
Init ==
    \E t \in {"False", "True"}, m \in BOOLEAN, y \in BOOLEAN :
        ManagerInit("True", "True", t, m, y)

NextManager == SaveFigure \/ GetFigureCall

SpecManager == Init /\ [][NextManager]_vars

\* A Manager constructed with any directory arguments, whose directory
\* attributes are then assigned and whose data files are asked for.
InitDirs ==
    \E pt \in DirToggles, dt \in DirToggles, ft \in DirToggles :
        ManagerInit(pt, dt, ft, FALSE, FALSE)

NextDirs == SetPythonDir \/ SetDataDir \/ SetFigDir \/ DataFile

SpecDirs == InitDirs /\ [][NextDirs]_vars

(***************************************************************************)
(* MultiFigure.  self.figures is a numpy object array: either the whole of  *)
(* a base array (after __init__) or a view of rows off .. off+nrows-1 of   *)
(* one (numpy basic slicing returns views, which share the base's memory). *)
(***************************************************************************)
Min(a, b) == IF a < b THEN a ELSE b
Max(a, b) == IF a > b THEN a ELSE b

\* A slice bound: None or an integer.
NoneB == [none |-> TRUE, v |-> 0]
IntB(v) == [none |-> FALSE, v |-> v]

\* slice(start, stop).indices(n) for step 1.
ClampBound(b, n) == IF b.v < 0 THEN Max(b.v + n, 0) ELSE Min(b.v, n)
SliceLo(key, n) == IF key.start.none THEN 0 ELSE ClampBound(key.start, n)
SliceHi(key, n) == IF key.stop.none THEN n ELSE ClampBound(key.stop, n)

sCentering == "\\centering"
sContinuedFloat == "\\ContinuedFloat"

\* MultiFigure.__init__(nrows, ncols, reference, continuation), with
\* self.figures the rows off.. of base array buf.
MultiFigureInit(nrows, ncols, reference, continuation, buf, off) ==
    [nrows       |-> nrows,
     ncols       |-> ncols,
     reference   |-> reference,
     caption     |-> sMultiFigure \o reference,
     label       |-> sFig \o reference,
     placement   |-> "H",
     frontmatter |-> IF continuation THEN <<sCentering, sContinuedFloat>>
                     ELSE <<sCentering>>,
     buf         |-> buf,
     off         |-> off]

\* np.zeros([nrows, ncols], dtype=object); figures[:] = None
NewArray(nrows, ncols) == [ncols |-> ncols, data |-> [k \in 1..(nrows * ncols) |-> None]]

\* self.figures.size
Size(m) == m.nrows * m.ncols

\* self.figures.flat of MultiFigure m over the arrays bs, as a sequence.
FlatOf(bs, m) == [k \in 1..Size(m) |-> bs[m.buf].data[m.off * m.ncols + k]]
Flat(m) == FlatOf(bufs, m)

\* np.logical_not(self.figures.flat).nonzero()[0]: the flat positions
\* (1-based here) of the empty slots, in increasing order.
Empties(m) == {k \in 1..Size(m) : Flat(m)[k] = None}

\* Mutant of FirstEmpty: the last empty slot.
LastEmpty(m) == CHOOSE k \in Empties(m) : \A j \in Empties(m) : j <= k

\* empties[0]
FirstEmpty(m) == CHOOSE k \in Empties(m) : \A j \in Empties(m) : k <= j

\* Mutant of IsContinuation: only an omitted start is the start of the list.
IsContinuationUnlessOmitted(key) == ~key.start.none

\* __getitem__, slice branch: "If this is the start of the list then it's
\* not a cont."
IsContinuation(key) == ~(key.start.none \/ key.start.v = 0)

\* __getitem__, slice branch: "If we are at the end then add the caption".
KeepsCaption(m, key) == key.stop.none \/ key.stop.v = Size(m)

\* __getitem__(slice): the new MultiFigure, whose figures are the view
\* self.figures[key] (rows SliceLo .. SliceHi-1 of self.figures).
GetItemSlice(m, key) ==
    LET lo   == SliceLo(key, m.nrows)
        hi   == SliceHi(key, m.nrows)
        rows == Max(hi - lo, 0)
        cont == IsContinuation(key)
        ref  == IF cont THEN m.reference \o sCont ELSE m.reference
        new  == MultiFigureInit(rows, m.ncols, ref, cont, m.buf, m.off + lo)
    IN  [new EXCEPT !.caption = IF KeepsCaption(m, key) THEN m.caption ELSE <<>>]

\* __getitem__(int): self.figures.flat[key].
GetItemInt(m, key) ==
    IF key >= Size(m) \/ key < 0 - Size(m)
    THEN [status |-> "IndexError", value |-> None]
    ELSE [status |-> "ok",
          value |-> Flat(m)[(IF key < 0 THEN key + Size(m) ELSE key) + 1]]

\* Inputs of the MultiFigure operations.
MFRefs == {<<"m">>}
Captions == {<<"c", "a", "p">>}
FigPaths == {[abs |-> TRUE, comps |-> <<"custom">>, name |-> sPlot \o sPdf]}
NonFigures == {[kind |-> "str", id |-> 0]}
AppendArgs == {[kind |-> "Figure", id |-> i] : i \in 1..Len(figs)} \cup NonFigures
FigRefs == {<<"a", "_", "b">>}
IntKeys == (0 - MaxRows * MaxCols - 1)..(MaxRows * MaxCols)
Starts == {NoneB} \cup {IntB(v) : v \in (0 - 1)..MaxRows}
Stops == {NoneB} \cup {IntB(v) : v \in (0 - 1)..(MaxRows * MaxCols + 1)}
SliceKeys == {[start |-> a, stop |-> b] : a \in Starts, b \in Stops}

\* Figure(file_name, reference)
new_figure(file_name, reference) ==
    /\ figs' = Append(figs, FigureInit(file_name, reference))
    /\ ret' = [call |-> [op |-> "Figure"], status |-> "ok", value |-> Len(figs) + 1]
    /\ UNCHANGED <<bufs, mfs, mgrVars>>

NewFigure ==
    \E file_name \in FigPaths, reference \in FigRefs :
        /\ Len(figs) < MaxFigs
        /\ new_figure(file_name, reference)

\* MultiFigure(nrows, ncols, reference)
new_multifigure(nrows, ncols, reference) ==
    /\ bufs' = Append(bufs, NewArray(nrows, ncols))
    /\ mfs' = Append(mfs, MultiFigureInit(nrows, ncols, reference, FALSE,
                                          Len(bufs) + 1, 0))
    /\ ret' = [call |-> [op |-> "MultiFigure"], status |-> "ok", value |-> Len(mfs) + 1]
    /\ UNCHANGED <<figs, mgrVars>>

NewMultiFigure ==
    \E nrows \in 1..MaxRows, ncols \in 1..MaxCols, reference \in MFRefs :
        /\ Len(bufs) < MaxRoots
        /\ Len(mfs) < MaxMF
        /\ new_multifigure(nrows, ncols, reference)

\* mfs[i].append(figure)
append(i, figure) ==
    LET m    == mfs[i]
        call == [op |-> "append", mf |-> i, arg |-> figure]
    IN  IF ~IsFigure(figure)
        THEN /\ ret' = [call |-> call, status |-> "TypeError", value |-> None]
             /\ UNCHANGED <<heapVars, mgrVars>>
        ELSE IF Empties(m) # {}
        THEN /\ bufs' = [bufs EXCEPT ![m.buf].data[m.off * m.ncols + FirstEmpty(m)] =
                                         figure.id]
             /\ ret' = [call |-> call, status |-> "ok", value |-> None]
             /\ UNCHANGED <<figs, mfs, mgrVars>>
        ELSE /\ ret' = [call |-> call, status |-> "ValueError", value |-> None]
             /\ UNCHANGED <<heapVars, mgrVars>>

AppendCall == \E i \in 1..Len(mfs), figure \in AppendArgs : append(i, figure)

\* mfs[i][key] for an int key
getitem_int(i, key) ==
    LET r == GetItemInt(mfs[i], key)
    IN  /\ ret' = [call |-> [op |-> "getitem_int"], status |-> r.status,
                   value |-> r.value]
        /\ UNCHANGED <<heapVars, mgrVars>>

GetItemIntCall == \E i \in 1..Len(mfs), key \in IntKeys : getitem_int(i, key)

\* mfs[i][start:stop]
getitem_slice(i, key) ==
    /\ mfs' = Append(mfs, GetItemSlice(mfs[i], key))
    /\ ret' = [call |-> [op |-> "getitem_slice", mf |-> i, key |-> key],
               status |-> "ok", value |-> Len(mfs) + 1]
    /\ UNCHANGED <<figs, bufs, mgrVars>>

GetItemSliceCall ==
    \E i \in 1..Len(mfs), key \in SliceKeys :
        /\ Len(mfs) < MaxMF
        /\ getitem_slice(i, key)

\* mfs[i][key] for a key that is neither an int nor a slice
getitem_other(i) ==
    /\ ret' = [call |-> [op |-> "getitem_other", mf |-> i], status |-> "KeyError",
               value |-> None]
    /\ UNCHANGED <<heapVars, mgrVars>>

GetItemOtherCall == \E i \in 1..Len(mfs) : getitem_other(i)

\* mfs[i].caption = caption (the caption is a plain, assignable attribute)
set_caption(i, caption) ==
    /\ mfs' = [mfs EXCEPT ![i].caption = caption]
    /\ ret' = [call |-> [op |-> "set_caption", mf |-> i], status |-> "ok",
               value |-> None]
    /\ UNCHANGED <<figs, bufs, mgrVars>>

SetCaption == \E i \in 1..Len(mfs), caption \in Captions : set_caption(i, caption)

NextMulti ==
    \/ NewFigure
    \/ NewMultiFigure
    \/ AppendCall
    \/ GetItemIntCall
    \/ GetItemSliceCall
    \/ GetItemOtherCall
    \/ SetCaption

\* Figures and MultiFigures used on their own, beside a Manager constructed
\* with its default arguments (fig_dir=True) that is left alone.
InitMulti ==
    /\ Init
    /\ fig_dir = AddDirInit(base_path, "True", "Figs")
    /\ savefigure_functions = InitSaveFunctions(FALSE, FALSE)

SpecMulti == InitMulti /\ [][NextMulti]_vars

(***************************************************************************)
(* MultiFigure._repr_latex_                                                *)
(***************************************************************************)
\* subfigures += '\n'
RowBreak == [env |-> "newline"]

\* Mutant of StartsRow: a row break before every sub-figure.
StartsRowAlways(m, k) == TRUE

\* i % self.ncols == 0 for the flat index i = k - 1.
StartsRow(m, k) == (k - 1) % m.ncols = 0

\* _repr_latex_'s loop over self.figures.flat from flat position k on:
\* [status, value], value the pieces added to subfigures, in order.
RECURSIVE Subfigures(_, _)
Subfigures(m, k) ==
    IF k > Size(m) THEN [status |-> "ok", value |-> <<>>]
    ELSE IF Flat(m)[k] = None THEN Subfigures(m, k + 1)
    ELSE LET sub  == ReprSubfigure(figs[Flat(m)[k]])
             rest == Subfigures(m, k + 1)
         IN  IF sub.status # "ok" THEN [status |-> sub.status, value |-> <<>>]
             ELSE IF rest.status # "ok" THEN rest
             ELSE [status |-> "ok",
                   value |-> (IF StartsRow(m, k) THEN <<RowBreak>> ELSE <<>>)
                                 \o <<sub.value>> \o rest.value]

\* MultiFigure._repr_latex_: fig_str filled in; [status, value].
ReprLatex(m) ==
    LET subfigures == Subfigures(m, 1)
    IN  IF subfigures.status # "ok" THEN [status |-> subfigures.status, value |-> None]
        ELSE [status |-> "ok",
              value |-> [env |-> "figure*", frontmatter |-> m.frontmatter,
                         myfig |-> subfigures.value, caption |-> m.caption,
                         label |-> m.label]]

\* mfs[i]._repr_latex_()
repr_latex(i) ==
    LET r == ReprLatex(mfs[i])
    IN  /\ ret' = IF r.status = "ok"
                   THEN [call |-> [op |-> "repr_latex", mf |-> i], status |-> "ok",
                         latex |-> r.value]
                   ELSE [call |-> [op |-> "repr_latex", mf |-> i], status |-> r.status]
        /\ UNCHANGED <<heapVars, mgrVars>>

RenderMulti == \E i \in 1..Len(mfs) : repr_latex(i)

\* MultiFigure(nrows, ncols) for the one MultiFigure a document builds.
FirstMultiFigure ==
    /\ mfs = <<>>
    /\ bufs = <<>>
    /\ NewMultiFigure

\* mf.append(figure) with the Figure made last.
AppendNewest ==
    /\ Len(mfs) = 1
    /\ figs # <<>>
    /\ append(1, [kind |-> "Figure", id |-> Len(figs)])

\* mf[start:] on that MultiFigure.
SliceRows ==
    \E start \in {IntB(0), IntB(1)} :
        /\ Len(mfs) = 1
        /\ getitem_slice(1, [start |-> start, stop |-> NoneB])

NextRender ==
    \/ NewFigure
    \/ FirstMultiFigure
    \/ AppendNewest
    \/ SliceRows
    \/ SetCaption
    \/ RenderMulti

SpecRender == InitMulti /\ [][NextRender]_vars

(***************************************************************************)
(* Figures constructed, rendered and re-captioned directly.                *)
(***************************************************************************)
sSvg == <<".", "s", "v", "g">>
sUnder == <<".", "a", "_", "b">>
\* File names with each extension of the mapping, another one, one holding
\* an underscore, and none.
FileNames == {sPlot \o e : e \in {sPdf, sPng, sPgf, sSvg, sUnder, <<>>}}
AnyFigPaths == {[abs |-> a, comps |-> <<"custom">>, name |-> n] :
                   a \in BOOLEAN, n \in FileNames}
\* reference arguments; <<>> is reference=None.
AnyFigRefs == {<<>>, <<"a", "_", "b">>}

AnyFigure ==
    \E file_name \in AnyFigPaths, reference \in AnyFigRefs :
        /\ Len(figs) < MaxFigs
        /\ new_figure(file_name, reference)

\* figs[i].repr_figure(), also figs[i]._repr_latex_()
repr_figure(i) ==
    LET r == ReprFigure(figs[i])
    IN  /\ ret' = IF r.status = "ok"
                   THEN [call |-> [op |-> "repr_figure", fig |-> i], status |-> "ok",
                         latex |-> r.value]
                   ELSE [call |-> [op |-> "repr_figure", fig |-> i], status |-> r.status]
        /\ UNCHANGED <<heapVars, mgrVars>>

RenderFigure == \E i \in 1..Len(figs) : repr_figure(i)

\* figs[i].repr_subfigure()
repr_subfigure(i) ==
    LET r == ReprSubfigure(figs[i])
    IN  /\ ret' = IF r.status = "ok"
                   THEN [call |-> [op |-> "repr_subfigure", fig |-> i], status |-> "ok",
                         latex |-> r.value]
                   ELSE [call |-> [op |-> "repr_subfigure", fig |-> i],
                         status |-> r.status]
        /\ UNCHANGED <<heapVars, mgrVars>>

RenderSubfigure == \E i \in 1..Len(figs) : repr_subfigure(i)

\* figs[i].caption = caption (the caption is a plain, assignable attribute)
set_figure_caption(i, caption) ==
    /\ figs' = [figs EXCEPT ![i].caption = caption]
    /\ ret' = [call |-> [op |-> "set_figure_caption", fig |-> i], status |-> "ok",
               value |-> None]
    /\ UNCHANGED <<bufs, mfs, mgrVars>>

SetFigureCaption ==
    \E i \in 1..Len(figs), caption \in Captions : set_figure_caption(i, caption)

NextFigure == AnyFigure \/ RenderFigure \/ RenderSubfigure \/ SetFigureCaption

SpecFigure == InitMulti /\ [][NextFigure]_vars

(***************************************************************************)
(* Saves on a Manager whose savefigure_functions the user may extend.      *)
(***************************************************************************)
\* The kinds a user registers: a subclass of matplotlib's Figure, saved by
\* the matplotlib save function.
UserKinds == {"MplSub"}

\* manager.savefigure_functions[kind] = manager._save_mpl_figure
register_save_function(kind) ==
    /\ savefigure_functions' =
           IF \E i \in 1..Len(savefigure_functions) : savefigure_functions[i] = kind
           THEN savefigure_functions
           ELSE Append(savefigure_functions, kind)
    /\ ret' = [call |-> [op |-> "register", kind |-> kind], status |-> "ok",
               value |-> None]
    /\ UNCHANGED <<heapVars, pytex_created, created_at, number, base_path, fig_dir, fig_count,
                   registry, returned, firstSave, dirVars, pytex_deps>>

RegisterSaveFunction == \E kind \in UserKinds : register_save_function(kind)

\* The figures a document saves: the current pyplot figure, a figure of a
\* matplotlib subclass and a yt plot collection of one plot.
SavedArtifacts ==
    {NoArtifact, [cls |-> "MplSub", plots |-> 1], [cls |-> "IPC", plots |-> 1]}

\* save_figure, ret recording the fname and fext arguments too.
SaveFigureArgs ==
    \E ref \in Refs, fig \in SavedArtifacts, fname \in FNames,
       fext \in FExts, io \in BOOLEAN :
        /\ fig_count <= MaxSaves
        /\ HaveBackend(Backend(fig.cls))
        /\ save_figure_call(ref, fig, fname, fext, io,
                            [op |-> "save_figure", ref |-> ref, fname |-> fname,
                             fext |-> fext])

\* A Manager constructed with its default directories, mayavi absent.
InitSave ==
    \E y \in BOOLEAN : ManagerInit("True", "True", "True", FALSE, y)

NextSave == SaveFigureArgs \/ RegisterSaveFunction

SpecSave == InitSave /\ [][NextSave]_vars

\* save_figure(ref, fig) under the default file name, ret recording the
\* class of fig.
SaveArtifact ==
    \E ref \in Refs, fig \in Artifacts \cup {NoArtifact}, io \in BOOLEAN :
        /\ fig_count <= MaxSaves
        /\ HaveBackend(Backend(fig.cls))
        /\ save_figure_call(ref, fig, <<>>, sPdf, io,
                            [op |-> "save_figure", ref |-> ref, cls |-> fig.cls])

NextDispatch == SaveArtifact \/ RegisterSaveFunction

\* A Manager constructed with its default directories.
InitDispatch ==
    \E m \in BOOLEAN, y \in BOOLEAN : ManagerInit("True", "True", "True", m, y)

SpecDispatch == InitDispatch /\ [][NextDispatch]_vars

\* A Manager with any data and figure directory, saving artifacts and
\* asked for data files.
InitNotify ==
    \E dt \in DirToggles, ft \in DirToggles : ManagerInit("True", dt, ft, FALSE, FALSE)

NextNotify == SaveArtifact \/ DataFile

SpecNotify == InitNotify /\ [][NextNotify]_vars

(***************************************************************************)
(* Manager.get_multifigure                                                 *)
(***************************************************************************)
\* Mutant of AppendRefs: a reference that is not registered is skipped.
RECURSIVE AppendRefsSkipUnregistered(_, _, _, _)
AppendRefsSkipUnregistered(bs, m, refs, i) ==
    IF i > Len(refs) THEN [status |-> "ok", bufs |-> bs]
    ELSE LET g == GetFigure(refs[i])
             e == {k \in 1..Size(m) : FlatOf(bs, m)[k] = None}
         IN  IF g.status # "ok" THEN AppendRefsSkipUnregistered(bs, m, refs, i + 1)
             ELSE IF e = {} THEN [status |-> "ValueError", bufs |-> bs]
             ELSE AppendRefsSkipUnregistered(
                      [bs EXCEPT ![m.buf].data[m.off * m.ncols +
                                    (CHOOSE k \in e : \A j \in e : k <= j)] = g.value],
                      m, refs, i + 1)

\* get_multifigure's loop from refs[i] on: get_figure, then mf.append, over
\* the arrays bs; [status, bufs].
RECURSIVE AppendRefs(_, _, _, _)
AppendRefs(bs, m, refs, i) ==
    IF i > Len(refs) THEN [status |-> "ok", bufs |-> bs]
    ELSE LET g == GetFigure(refs[i])
             e == {k \in 1..Size(m) : FlatOf(bs, m)[k] = None}
         IN  IF g.status # "ok" THEN [status |-> g.status, bufs |-> bs]
             ELSE IF e = {} THEN [status |-> "ValueError", bufs |-> bs]
             ELSE AppendRefs(
                      [bs EXCEPT ![m.buf].data[m.off * m.ncols +
                                    (CHOOSE k \in e : \A j \in e : k <= j)] = g.value],
                      m, refs, i + 1)

\* Manager.get_multifigure(nrows, ncols, refs, reference)
get_multifigure(nrows, ncols, refs, reference) ==
    LET call == [op |-> "get_multifigure", nrows |-> nrows, ncols |-> ncols,
                 refs |-> refs]
        mf   == MultiFigureInit(nrows, ncols, reference, FALSE, Len(bufs) + 1, 0)
        run  == AppendRefs(Append(bufs, NewArray(nrows, ncols)), mf, refs, 1)
    IN  IF Len(refs) > nrows * ncols
        THEN /\ ret' = [call |-> call, status |-> "ValueError", value |-> None]
             /\ UNCHANGED <<heapVars, mgrVars>>
        ELSE IF run.status # "ok"
        THEN /\ ret' = [call |-> call, status |-> run.status, value |-> None]
             /\ UNCHANGED <<heapVars, mgrVars>>
        ELSE /\ bufs' = run.bufs
             /\ mfs' = Append(mfs, mf)
             /\ ret' = [call |-> call, status |-> "ok", value |-> Len(mfs) + 1]
             /\ UNCHANGED <<figs, mgrVars>>

\* refs: every list of at most MaxRefs references.
RefLists == UNION {[1..n -> Refs] : n \in 0..MaxRefs}

GetMultifigure ==
    \E nrows \in 1..MaxRows, ncols \in 1..MaxCols, refs \in RefLists,
       reference \in MFRefs :
        /\ bufs = <<>>
        /\ mfs = <<>>
        /\ get_multifigure(nrows, ncols, refs, reference)

\* manager.save_figure(ref): the current pyplot figure under the default
\* file name.
SaveCurrentFigure ==
    \E ref \in Refs :
        /\ fig_count <= MaxSaves
        /\ save_figure(ref, NoArtifact, <<>>, sPdf, FALSE)

NextGetMulti == SaveCurrentFigure \/ GetFigureCall \/ GetMultifigure

SpecGetMulti == InitMulti /\ [][NextGetMulti]_vars

(***************************************************************************)
(* A Manager used through all its operations: saves, lookups, data files,  *)
(* rendering, and at most one re-assignment of a directory attribute.      *)
(***************************************************************************)
AssignDirectory ==
    /\ assigned.python_dir = "True"
    /\ assigned.fig_dir = "True"
    /\ assigned.data_dir \in {"True", "False"}
    /\ (SetPythonDir \/ SetDataDir \/ SetFigDir)

\* save_figure(ref) while fewer than MaxFigs Figures exist.
SaveFewFigures ==
    /\ Len(figs) < MaxFigs
    /\ SaveCurrentFigure

\* manager.data_file(file_name), the first data file of the document.
FirstDataFile ==
    /\ pytex_deps = <<>>
    /\ DataFile

\* get_multifigure(1, MaxCols, refs, reference)
GetMultifigureRow ==
    \E refs \in RefLists, reference \in MFRefs :
        /\ bufs = <<>>
        /\ mfs = <<>>
        /\ get_multifigure(1, MaxCols, refs, reference)

InitFrame ==
    \E dt \in {"True", "False"} : ManagerInit("True", dt, "True", FALSE, FALSE)

NextFrame ==
    \/ SaveFewFigures
    \/ GetFigureCall
    \/ GetMultifigureRow
    \/ FirstDataFile
    \/ AssignDirectory
    \/ RenderFigure
    \/ RenderMulti

SpecFrame == InitFrame /\ [][NextFrame]_vars

(***************************************************************************)
(* Figures constructed directly and by saves, collected in MultiFigures,   *)
(* sliced and rendered.                                                    *)
(***************************************************************************)
\* Figure(file_name, reference) for a '.pdf' and a '.a_b' file.
ConstructFigure ==
    \E file_name \in {p \in AnyFigPaths : p.abs /\ Extension([fname |-> p.name])
                                                       \in {sPdf, sUnder}},
       reference \in AnyFigRefs :
        /\ Len(figs) < MaxFigs
        /\ new_figure(file_name, reference)

\* mf[start:] on the MultiFigure that get_multifigure returned.
SliceFrom ==
    \E start \in {NoneB, IntB(0), IntB(1)} :
        /\ Len(mfs) = 1
        /\ getitem_slice(1, [start |-> start, stop |-> NoneB])

\* mf.append(figure) on the MultiFigure that get_multifigure returned.
AppendToRow ==
    /\ Len(mfs) = 1
    /\ AppendCall

NextObjects ==
    \/ ConstructFigure
    \/ SaveFewFigures
    \/ GetFigureCall
    \/ GetMultifigureRow
    \/ AppendToRow
    \/ SliceFrom
    \/ RenderFigure
    \/ RenderSubfigure
    \/ RenderMulti

SpecObjects == InitMulti /\ [][NextObjects]_vars

(***************************************************************************)
(* Claims about the Manager.                                               *)
(***************************************************************************)
SaveStep == ret'.call.op = "save_figure"

\* C1: a save_figure whose artifact's type matches no registered save
\* function fails with an error, adds no registry entry, leaves fig_count
\* unchanged and sends no add_created notification.
C1_UnmatchedArtifactFails ==
    [][(SaveStep /\ fig_dir.set /\ ret'.invoked = <<>>) =>
          /\ ret'.status # "ok"
          /\ registry' = registry
          /\ fig_count' = fig_count
          /\ pytex_created' = pytex_created]_vars

\* C2: every successful save_figure (a save function matched and returned)
\* increases fig_count by exactly 1; every failed one (no matching save
\* function, a save function raising, no figure directory) leaves fig_count
\* and the registry unchanged; fig_count never decreases.
C2_CountPerSuccessfulSave ==
    [][SaveStep =>
          /\ fig_count' >= fig_count
          /\ IF ret'.status = "ok" /\ ret'.invoked # <<>>
             THEN fig_count' = fig_count + 1
             ELSE fig_count' = fig_count /\ registry' = registry]_vars

C4_NumbersIncreaseInOrder ==
    \A i, j \in 1..Len(registry) : i < j => registry[i].number < registry[j].number

\* C4 (amended): the registry iterates in the order in which the references
\* were first saved; an entry overwritten by a later save keeps its place
\* and carries the later number, so the numbers increase along the
\* iteration as long as no reference was re-used.
C4_OrderOfFirstSave ==
    /\ \A i \in 1..Len(registry) :
          /\ firstSave[registry[i].ref] >= 1
          /\ registry[i].number >= firstSave[registry[i].ref]
    /\ \A i, j \in 1..Len(registry) :
          i < j => firstSave[registry[i].ref] < firstSave[registry[j].ref]
    /\ (\A i \in 1..Len(registry) : registry[i].number = firstSave[registry[i].ref])
          => C4_NumbersIncreaseInOrder

\* C4 witness: the first entry was overwritten after the second was added.
C4_Witness ==
    /\ Len(registry) = 2
    /\ registry[1].number > registry[2].number
    /\ firstSave[registry[1].ref] < registry[1].number

\* C5: the registry holds one entry per reference; the sequence numbers are
\* pairwise distinct, each >= 1 and < fig_count; a save replaces the entry
\* of its reference by the new Figure with the value fig_count had.
C5_RegistryNumbers ==
    /\ \A i, j \in 1..Len(registry) :
          i # j => /\ registry[i].ref # registry[j].ref
                   /\ registry[i].number # registry[j].number
    /\ \A i \in 1..Len(registry) :
          registry[i].number >= 1 /\ registry[i].number < fig_count
    /\ (ret.call.op = "save_figure" /\ ret.status = "ok") =>
          LET i == RegIndex(registry, ret.call.ref)
          IN  /\ i # 0
              /\ registry[i].Figure = ret.value
              /\ registry[i].number = fig_count - 1

\* C5 witness: a save has overwritten an entry of the registry.
C5_Witness ==
    /\ ret.call.op = "save_figure"
    /\ ret.status = "ok"
    /\ Len(registry) = 1
    /\ fig_count = 3
    /\ registry[1].number = 2

(***************************************************************************)
(* Claims about MultiFigure.                                               *)
(***************************************************************************)
AppendStep == ret'.call.op = "append"
SliceDone == ret.call.op = "getitem_slice"

\* The slots of m that hold a Figure form a prefix of its flat order.
PrefixFilled(m) ==
    \A k \in 1..Size(m) : Flat(m)[k] # None => \A j \in 1..k : Flat(m)[j] # None

\* No other MultiFigure's figures share the base array of mfs[i].
Unshared(i) == \A j \in 1..Len(mfs) : j # i => mfs[j].buf # mfs[i].buf

\* C6: append raises TypeError for a non-Figure (also on a full grid), else
\* ValueError when no slot is empty, else stores the figure in the empty
\* slot of lowest flat index and changes no other slot; a failed append
\* changes nothing.  Hence a grid filled by appends alone holds its figures
\* in slots 0..k-1: the k-th append fills slot k-1, and the append after
\* nrows*ncols of them raises ValueError.
C6_AppendFillsFirstEmpty ==
    /\ [][AppendStep =>
            LET i   == ret'.call.mf
                m   == mfs[i]
                x   == ret'.call.arg
                old == Flat(m)
                new == FlatOf(bufs', m)
            IN  /\ mfs' = mfs /\ figs' = figs
                /\ IF ~IsFigure(x)
                   THEN ret'.status = "TypeError" /\ bufs' = bufs
                   ELSE IF \A k \in 1..Size(m) : old[k] # None
                   THEN ret'.status = "ValueError" /\ bufs' = bufs
                   ELSE /\ ret'.status = "ok"
                        /\ \E k \in 1..Size(m) :
                              /\ old[k] = None
                              /\ \A j \in 1..(k - 1) : old[j] # None
                              /\ new = [old EXCEPT ![k] = x.id]
                              /\ (PrefixFilled(m) /\ Unshared(i)) =>
                                    k = Cardinality({j \in 1..Size(m) : old[j] # None}) + 1
         ]_vars
    /\ [](\A i \in 1..Len(mfs) : Unshared(i) => PrefixFilled(mfs[i]))

\* C6 witness: an append to a full grid of more than one slot, filled by
\* appends alone, has raised ValueError.
C6_Witness ==
    /\ ret.call.op = "append"
    /\ ret.status = "ValueError"
    /\ Unshared(ret.call.mf)
    /\ Size(mfs[ret.call.mf]) = MaxRows * MaxCols
    /\ Flat(mfs[ret.call.mf])[1] # Flat(mfs[ret.call.mf])[2]

\* C7: mf[a:b] is a new MultiFigure whose flat slots are the source's flat
\* slots a .. b-1 in order (for every shape, ncols > 1 included), so that
\* result[i] == source[a+i].
C7_SliceSelectsFlatRange ==
    SliceDone =>
        LET src == mfs[ret.call.mf]
            new == mfs[ret.value]
            a   == SliceLo(ret.call.key, Size(src))
            b   == SliceHi(ret.call.key, Size(src))
        IN  /\ Size(new) = Max(b - a, 0)
            /\ \A i \in 0..(Size(new) - 1) :
                  GetItemInt(new, i) = GetItemInt(src, a + i)

\* C8: a slice is no continuation exactly when its start is omitted or 0; a
\* slice that is none keeps the source's reference and label, a continuation
\* carries \ContinuedFloat in its front-matter.
C8_ContinuationIffStartNotZero ==
    SliceDone =>
        LET src   == mfs[ret.call.mf]
            new   == mfs[ret.value]
            start == ret.call.key.start
            cont  == \E k \in 1..Len(new.frontmatter) : new.frontmatter[k] = sContinuedFloat
        IN  /\ cont = ~(start.none \/ start.v = 0)
            /\ ~cont => new.reference = src.reference /\ new.label = src.label
            /\ cont => new.frontmatter = <<sCentering, sContinuedFloat>>
            /\ new.frontmatter[1] = sCentering

\* C8 witness: grid[0:1] of a two-row grid was taken and is no continuation.
C8_Witness ==
    /\ SliceDone
    /\ ret.call.key = [start |-> IntB(0), stop |-> IntB(1)]
    /\ mfs[ret.call.mf].nrows = 2
    /\ mfs[ret.value].frontmatter = <<sCentering>>

\* C9: a slice keeps the source's current caption exactly when its end is
\* omitted, equal to the grid size N or beyond N, and has the empty caption
\* otherwise.
C9_CaptionIffEndReached ==
    SliceDone =>
        LET src  == mfs[ret.call.mf]
            new  == mfs[ret.value]
            stop == ret.call.key.stop
        IN  IF stop.none \/ stop.v >= Size(src)
            THEN new.caption = src.caption
            ELSE new.caption = <<>>

\* C10: slicing changes nothing of the source, and the result is independent
\* of it: an append to one MultiFigure changes no slot of any other, and
\* nothing but an append changes any slot.
C10_SliceIndependentOfSource ==
    [][/\ ret'.call.op = "getitem_slice" =>
            /\ bufs' = bufs
            /\ \A i \in 1..Len(mfs) : mfs'[i] = mfs[i]
       /\ \A i \in 1..Len(mfs) :
            (~AppendStep \/ ret'.call.mf # i) => FlatOf(bufs', mfs[i]) = Flat(mfs[i])
      ]_vars

(***************************************************************************)
(* Claims about the directory attributes.                                  *)
(***************************************************************************)
\* The directory the value v stands for: False is None, True is
\* base_path/default, a string is that path.
DirOf(v, default) ==
    IF v = "False" THEN NoneDir
    ELSE IF v = "True" THEN JoinDir(base_path, default)
    ELSE CustomDir

DirStep(op) == ret'.call.op = op

\* C13: for each of python_dir, data_dir and fig_dir, at construction and
\* after every later assignment, the last value assigned decides the
\* directory (False: None, True: base_path/default, a string: that path);
\* an enabled directory exists; and assigning the value an attribute was
\* last assigned changes no directory attribute and creates nothing.
C13_LastAssignmentDecides ==
    /\ [](/\ python_dir = DirOf(assigned.python_dir, "Python")
          /\ data_dir = DirOf(assigned.data_dir, "Data")
          /\ fig_dir = DirOf(assigned.fig_dir, "Figs")
          /\ \A d \in {python_dir, data_dir, fig_dir} : d.set => d \in disk)
    /\ [][\A attr \in {"python_dir", "data_dir", "fig_dir"} :
              (DirStep("set_" \o attr) /\ ret'.call.value = assigned[attr])
                  => UNCHANGED <<python_dir, data_dir, fig_dir, disk>>]_vars

(***************************************************************************)
(* Claims about get_multifigure.                                           *)
(***************************************************************************)
GetMultiStep == ret'.call.op = "get_multifigure"

\* C11: get_multifigure(nrows, ncols, refs, reference) raises ValueError
\* when len(refs) > nrows*ncols, whatever the references are; otherwise it
\* raises KeyError when some reference in refs is not registered; otherwise
\* it returns a new nrows x ncols MultiFigure whose flat slot i holds the
\* Figure registered under refs[i] for every i < len(refs) and whose other
\* slots are empty.  The registry and fig_count are unchanged in every case.
C11_GetMultifigure ==
    [][GetMultiStep =>
          LET c == ret'.call
              n == c.nrows * c.ncols
          IN  /\ registry' = registry
              /\ fig_count' = fig_count
              /\ IF Len(c.refs) > n
                 THEN ret'.status = "ValueError" /\ UNCHANGED heapVars
                 ELSE IF \E i \in 1..Len(c.refs) : RegIndex(registry, c.refs[i]) = 0
                 THEN ret'.status = "KeyError" /\ UNCHANGED heapVars
                 ELSE /\ ret'.status = "ok"
                      /\ ret'.value = Len(mfs) + 1
                      /\ Len(mfs') = Len(mfs) + 1
                      /\ mfs'[ret'.value].nrows = c.nrows
                      /\ mfs'[ret'.value].ncols = c.ncols
                      /\ mfs'[ret'.value].buf \notin {mfs[j].buf : j \in 1..Len(mfs)}
                      /\ \A k \in 1..n :
                            FlatOf(bufs', mfs'[ret'.value])[k] =
                                IF k <= Len(c.refs)
                                THEN registry[RegIndex(registry, c.refs[k])].Figure
                                ELSE None]_vars

\* C11 witness: a 2 x 2 MultiFigure was returned for a list that repeats a
\* reference, the repeated slots holding the same Figure.
C11_Witness ==
    /\ ret.call.op = "get_multifigure"
    /\ ret.status = "ok"
    /\ ret.call.nrows = 2 /\ ret.call.ncols = 2
    /\ Len(ret.call.refs) = 3
    /\ ret.call.refs[1] = ret.call.refs[3]
    /\ ret.call.refs[1] # ret.call.refs[2]
    /\ Flat(mfs[ret.value])[1] = Flat(mfs[ret.value])[3]
    /\ Flat(mfs[ret.value])[1] # Flat(mfs[ret.value])[2]
    /\ Flat(mfs[ret.value])[4] = None

(***************************************************************************)
(* Claims about rendering a Figure.                                        *)
(***************************************************************************)
RenderStep == ret'.call.op \in {"repr_figure", "repr_subfigure"}

\* C15: repr_figure and repr_subfigure pick the include by the file's
\* extension only: '.pgf' gives the \IfFileExists import, '.png' and '.pdf'
\* give \includegraphics with an explicit width, any other extension (an
\* empty one too) raises KeyError.  Rendering changes no field of the
\* Figure, and the output is the same whenever the fields are the same.
C15_IncludeByExtension ==
    [][RenderStep =>
          LET f   == figs[ret'.call.fig]
              ext == SplitExt(f.file_name.name)[2]
          IN  /\ figs' = figs
              /\ IF ext = sPgf
                 THEN /\ ret'.status = "ok"
                      /\ ret'.latex.myfig.directive = "IfFileExists"
                      /\ ret'.latex.myfig.file_name = f.file_name
                 ELSE IF ext \in {sPng, sPdf}
                 THEN /\ ret'.status = "ok"
                      /\ ret'.latex.myfig.directive = "includegraphics"
                      /\ ret'.latex.myfig.width = f.figure_width
                      /\ ret'.latex.myfig.file_name = f.file_name
                 ELSE ret'.status = "KeyError"
              /\ ret'.status = "ok" =>
                    /\ ret'.latex.caption = f.caption
                    /\ ret'.latex.label = f.label
              /\ (ret.call = ret'.call /\ UNCHANGED figs) => ret' = ret]_vars

\* C15 witness: repr_figure raised KeyError for a Figure without an
\* extension, beside a '.pgf' Figure that renders.
C15_Witness ==
    /\ ret.call.op = "repr_figure"
    /\ ret.status = "KeyError"
    /\ Extension(figs[ret.call.fig]) = <<>>
    /\ \E i \in 1..Len(figs) : ReprFigure(figs[i]).status = "ok"
                                 /\ Extension(figs[i]) = sPgf

(***************************************************************************)
(* Claims about rendering a MultiFigure.                                   *)
(***************************************************************************)
\* The occupied flat positions of row r (0-based) of MultiFigure m.
Occupied(m, r) == {k \in (r * m.ncols + 1)..((r + 1) * m.ncols) : Flat(m)[k] # None}

\* The sub-figure markup of the occupied flat positions from k to hi.
RECURSIVE RowMarkup(_, _, _)
RowMarkup(m, k, hi) ==
    IF k > hi THEN <<>>
    ELSE (IF Flat(m)[k] = None THEN <<>>
          ELSE <<ReprSubfigure(figs[Flat(m)[k]]).value>>) \o RowMarkup(m, k + 1, hi)

\* Rows r.. of m, each non-empty one as one row break and its markup.
RECURSIVE RowsMarkup(_, _)
RowsMarkup(m, r) ==
    IF r >= m.nrows THEN <<>>
    ELSE (IF Occupied(m, r) = {} THEN <<>>
          ELSE <<RowBreak>> \o RowMarkup(m, r * m.ncols + 1, (r + 1) * m.ncols))
             \o RowsMarkup(m, r + 1)

\* C20: _repr_latex_ of a MultiFigure returns the figure* environment with
\* its front-matter, caption and label around the sub-figure markup of the
\* occupied slots in flat order, each row that holds an occupied slot
\* preceded by exactly one row break; an all-empty grid renders with no
\* sub-figure content; no slot changes.
C20_RenderRows ==
    [][ret'.call.op = "repr_latex" =>
          LET m == mfs[ret'.call.mf]
          IN  /\ UNCHANGED heapVars
              /\ ret'.status = "ok"
              /\ ret'.latex.myfig = RowsMarkup(m, 0)
              /\ ret'.latex.frontmatter = m.frontmatter
              /\ ret'.latex.caption = m.caption
              /\ ret'.latex.label = m.label
              /\ (\A k \in 1..Size(m) : Flat(m)[k] = None) => ret'.latex.myfig = <<>>]_vars

\* C20 witness: a rendered 2-column MultiFigure with two occupied rows, the
\* second one holding a single sub-figure.
C20_Witness ==
    /\ ret.call.op = "repr_latex"
    /\ ret.status = "ok"
    /\ mfs[ret.call.mf].ncols = 2
    /\ Len(ret.latex.myfig) = 5
    /\ ret.latex.myfig[1] = RowBreak
    /\ ret.latex.myfig[4] = RowBreak
    /\ Flat(mfs[ret.call.mf])[4] = None

(***************************************************************************)
(* Claims about the file a save writes.                                    *)
(***************************************************************************)
\* Chapter<N>-Figure<count>-<reference><extension>
DefaultName(n, count, ref, fext) ==
    sChapter \o IntToStr(n) \o sDashFigure \o IntToStr(count) \o <<"-">> \o ref \o fext

IsDefaultName(name) == Len(name) >= Len(sChapter) /\ SubSeq(name, 1, Len(sChapter)) = sChapter

C16_ExplicitNameGetsExtension ==
    (ret.call.op = "save_figure" /\ ret.status = "ok" /\ ret.call.fname # <<>>) =>
        LET f  == figs[ret.value]
            yt == \E i \in 1..Len(ret.invoked) : ret.invoked[i] = "IPC"
        IN  /\ Extension(f) = ret.call.fext
            /\ ReprFigure(f).status = "ok"
            /\ ~yt => f.file_name =
                         AbsPath(JoinFile(fig_dir, ret.call.fname \o ret.call.fext))

(***************************************************************************)
(* Claims about the choice of save function.                               *)
(***************************************************************************)
\* The positions of the registered kinds the class cls is a subclass of.
Matches(cls) ==
    {i \in 1..Len(savefigure_functions) : IsSubclass(cls, savefigure_functions[i])}

\* C18: a returning save_figure whose artifact matches some registered kind
\* calls exactly one save function, once: that of the first registered kind
\* the artifact's class is a subclass of; the Figure's path is the path
\* that save function returned.
C18_ExactlyOneSaveFunction ==
    (ret.call.op = "save_figure" /\ ret.status = "ok") =>
        LET cls   == IF ret.call.cls = "None" THEN "MplFigure" ELSE ret.call.cls
            first == CHOOSE i \in Matches(cls) : \A j \in Matches(cls) : i <= j
            entry == registry[RegIndex(registry, ret.call.ref)]
            p     == JoinFile(fig_dir, DefaultName(number, entry.number, ret.call.ref, sPdf))
        IN  Matches(cls) # {} =>
                /\ ret.invoked = <<savefigure_functions[first]>>
                /\ figs[ret.value].file_name =
                       AbsPath(SaveFunction(savefigure_functions[first],
                                            [cls |-> cls, plots |-> 1], p, FALSE).fname)

(***************************************************************************)
(* Claims about the notifications to pytex.                                *)
(***************************************************************************)
\* What one save_figure or data_file call sends to pytex.
NotifyStep ==
    /\ SaveStep =>
          /\ pytex_deps' = pytex_deps
          /\ pytex_created' = IF ret'.status = "ok"
                               THEN Append(pytex_created, figs'[ret'.value].file_name)
                               ELSE pytex_created
    /\ ret'.call.op = "data_file" =>
          /\ pytex_created' = pytex_created
          /\ pytex_deps' = IF ret'.status = "ok"
                            THEN Append(pytex_deps, ret'.path)
                            ELSE pytex_deps

\* C19: every returning save_figure makes exactly one add_created call,
\* with the returned Figure's path, made before the registry entry is
\* written and before fig_count is incremented; a save_figure that raises
\* makes none.  So every registry entry's Figure path has been notified and
\* the number of add_created calls is fig_count - 1.  data_file makes
\* exactly one add_dependencies call, with the path it returns, and no
\* add_created call.
C19_Notifications ==
    /\ [](/\ Len(pytex_created) = fig_count - 1
          /\ \A i \in 1..Len(registry) :
                \E k \in 1..Len(pytex_created) :
                    pytex_created[k] = figs[registry[i].Figure].file_name
          /\ Len(created_at) = Len(pytex_created)
          /\ \A k \in 1..Len(created_at) :
                created_at[k] = [count |-> k, written |-> FALSE])
    /\ [][NotifyStep]_vars

\* C19 witness: two saves returned, one raised, and data_file returned a
\* path.
C19_Witness ==
    /\ Len(pytex_created) = 2
    /\ fig_count = 3
    /\ Len(pytex_deps) = 1
    /\ ret.call.op = "save_figure"
    /\ ret.status = "IOError"

(***************************************************************************)
(* Claims about what changes the registry.                                 *)
(***************************************************************************)
\* C17: the registry and fig_count change only in a save_figure that
\* returns: get_figure, get_multifigure, data_file, the assignments to the
\* directory attributes and rendering leave both as they are, whether they
\* return or raise; and a registered reference stays registered.
C17_OnlySavesChangeRegistry ==
    [][/\ (registry' # registry \/ fig_count' # fig_count) =>
              (SaveStep /\ ret'.status = "ok")
       /\ \A i \in 1..Len(registry) : RegIndex(registry', registry[i].ref) # 0]_vars

\* C17 witness: with a reference registered, a data file tracked and the
\* figure directory re-assigned, get_multifigure raised KeyError.
C17_Witness ==
    /\ ret.call.op = "get_multifigure"
    /\ ret.status = "KeyError"
    /\ Len(registry) = 1
    /\ fig_count = 3
    /\ Len(pytex_deps) >= 1
    /\ fig_dir = CustomDir

(***************************************************************************)
(* Claims about a Figure's identity fields.                                *)
(***************************************************************************)
\* A reference with each underscore replaced by a hyphen.
Hyphenated(r) == [i \in 1..Len(r) |-> IF r[i] = "_" THEN "-" ELSE r[i]]

\* The Figure a step constructs satisfies the claim's conditions.
ConstructedRight ==
    LET f == figs'[Len(figs')]
    IN  /\ \A i \in 1..Len(f.reference) : f.reference[i] # "_"
        /\ f.label = sFig \o f.reference
        /\ f.caption = sFigure \o f.reference
        /\ SaveStep => f.reference = Hyphenated(ret'.call.ref)

\* C14: every Figure constructed, directly or by save_figure, has a
\* reference without underscores (the supplied one with each underscore
\* replaced by a hyphen), label "fig:" + reference and caption
\* "Figure " + reference; and save_figure, get_figure, get_multifigure,
\* append, slicing and rendering leave the reference, label and path of
\* every existing Figure as they are.
C14_FigureIdentity ==
    [][/\ Len(figs') >= Len(figs)
       /\ \A i \in 1..Len(figs) :
             /\ figs'[i].reference = figs[i].reference
             /\ figs'[i].label = figs[i].label
             /\ figs'[i].file_name = figs[i].file_name
       /\ Len(figs') > Len(figs) => ConstructedRight]_vars

\* C14 witness: a Figure saved under "a_b" and one constructed from a file
\* name alone sit in a MultiFigure that was rendered or sliced.
C14_Witness ==
    /\ Len(figs) >= 2
    /\ \E i, j \in 1..Len(figs) :
          /\ figs[i].reference = <<"a", "-", "b">>
          /\ RegIndex(registry, <<"a", "_", "b">>) # 0
          /\ registry[RegIndex(registry, <<"a", "_", "b">>)].Figure = i
          /\ figs[j].reference = <<".", "a", "-", "b">>
          /\ Len(mfs) >= 1
          /\ Flat(mfs[1])[1] = i
          /\ Flat(mfs[1])[2] = j
    /\ ret.call.op \in {"repr_latex", "getitem_slice"}

====
